---- MODULE Spec2Model ----
(***************************************************************************)
(* Model of the PR review reminder bot (src/src/index.mjs).                *)
(*                                                                         *)
(* Time is counted in whole minutes since 00:00 of day 0, local time.      *)
(* nextReminderDate compares a minute-aligned Date with the current time,  *)
(* so the comparison has the same result on the current time truncated to  *)
(* the minute.  Strings are sequences of one-character strings.            *)
(***************************************************************************)
EXTENDS Integers, Sequences, FiniteSets, Bags, TLC

VARIABLES
    members,     \* the chats the bot receives commands from
    now,         \* current local time, in minutes since day 0, 00:00
    chatStates,  \* chatId -> [windows, reminders]         (index.mjs:48)
    timers,      \* the runtime's list of armed timeouts   (setTimeout/clearTimeout)
    inflight,    \* bag of timer callbacks suspended at `await sendToChat` (index.mjs:141)
    sent,        \* history: per chat and slot, the last reminders handed to sendMessage,
                 \* the last two of them, latest first
    owed,        \* history: per chat and slot, the first instant after the last accepted
                 \* /set_windows at which the stored window's reminder falls; 0: none
    signals,     \* termination signals already handled    (process.once, index.mjs:215-223)
    lastOp       \* history: the handler that ran last, and what it did

vars == <<members, now, chatStates, timers, inflight, sent, owed, signals, lastOp>>

----------------------------------------------------------------------------
(* Bounds of the model *)

\* number of days the clock runs through
MaxDays == 1
\* number of timer handles that may be alive (armed or referenced) at once
MaxTimers == 6
\* number of deliveries that may be under way at once
MaxInflight == 2

----------------------------------------------------------------------------
(* Strings *)

DigitChars == <<"0", "1", "2", "3", "4", "5", "6", "7", "8", "9">>

IsDigit(c) == \E i \in 1..10 : DigitChars[i] = c

DigitVal(c) == (CHOOSE i \in 1..10 : DigitChars[i] = c) - 1

\* the value JavaScript's null, comparable with strings
NULL == <<"null">>

\* the value NaN
NaN == -1

\* String.prototype.split with a one-character separator: the pieces between
\* the occurrences of sep, in order
Split(s, sep) ==
    LET seps == {i \in 1..Len(s) : s[i] = sep}
        \* the position of the j-th occurrence of sep; 0 and Len(s) + 1 bound the string
        pos == [j \in 0..(Cardinality(seps) + 1) |->
                  IF j = 0 THEN 0
                  ELSE IF j = Cardinality(seps) + 1 THEN Len(s) + 1
                  ELSE CHOOSE i \in seps : Cardinality({x \in seps : x < i}) = j - 1]
    IN  [j \in 1..(Cardinality(seps) + 1) |-> SubSeq(s, pos[j - 1] + 1, pos[j] - 1)]

\* the value of the first n characters of s, all of them decimal digits
RECURSIVE DigitsValue(_, _)
DigitsValue(s, n) ==
    IF n = 0 THEN 0 ELSE 10 * DigitsValue(s, n - 1) + DigitVal(s[n])

\* Number(str) on a string of decimal digits; the empty string is 0
ToNumber(s) ==
    IF Len(s) = 0 THEN 0
    ELSE IF \E i \in 1..Len(s) : ~IsDigit(s[i]) THEN NaN
    ELSE DigitsValue(s, Len(s))

----------------------------------------------------------------------------
(* isValidTimeWindow: /^([01]?\d|2[0-3]):[0-5]\d-([01]?\d|2[0-3]):[0-5]\d$/ *)

CharAt(s, i) == IF i \in 1..Len(s) THEN s[i] ELSE ""

\* the hour of the pattern with 2[0-4] for 2[0-3]
MatchHourUpTo24(s, i) ==
    (IF CharAt(s, i) \in {"0", "1"} /\ IsDigit(CharAt(s, i + 1)) THEN {i + 2} ELSE {})
    \cup (IF IsDigit(CharAt(s, i)) THEN {i + 1} ELSE {})
    \cup (IF CharAt(s, i) = "2" /\ CharAt(s, i + 1) \in {"0", "1", "2", "3", "4"}
          THEN {i + 2} ELSE {})

\* positions after a match of ([01]?\d|2[0-3]) starting at position i
MatchHour(s, i) ==
    (IF CharAt(s, i) \in {"0", "1"} /\ IsDigit(CharAt(s, i + 1)) THEN {i + 2} ELSE {})
    \cup (IF IsDigit(CharAt(s, i)) THEN {i + 1} ELSE {})
    \cup (IF CharAt(s, i) = "2" /\ CharAt(s, i + 1) \in {"0", "1", "2", "3"}
          THEN {i + 2} ELSE {})

\* positions after a match of [0-5]\d starting at position i
MatchMinute(s, i) ==
    IF CharAt(s, i) \in {"0", "1", "2", "3", "4", "5"} /\ IsDigit(CharAt(s, i + 1))
    THEN {i + 2} ELSE {}

\* positions after a match of the literal character c at position i
MatchChar(s, i, c) == IF CharAt(s, i) = c THEN {i + 1} ELSE {}

\* positions after a match of ([01]?\d|2[0-3]):[0-5]\d starting at position i
MatchTime(s, i) ==
    UNION {UNION {MatchMinute(s, p2) : p2 \in MatchChar(s, p1, ":")} : p1 \in MatchHour(s, i)}

IsValidTimeWindow(timeStr) ==
    \E p1 \in MatchTime(timeStr, 1) :
        \E p2 \in MatchChar(timeStr, p1, "-") :
            Len(timeStr) + 1 \in MatchTime(timeStr, p2)

----------------------------------------------------------------------------
(* Calendar *)

MinutesPerDay == 24 * 60

\* the lead time of a reminder, in minutes
LeadMinutes == 10

\* 00:00 of the calendar day of instant t
StartOfDay(t) == (t \div MinutesPerDay) * MinutesPerDay

\* the value of an invalid Date
InvalidDate == -1

\* nextReminderDate with `reminder < now` for `reminder <= now`
NextReminderDateStrict(startHHMM, at) ==
    LET parts == Split(startHHMM, ":")
        h == ToNumber(parts[1])
        m == IF Len(parts) >= 2 THEN ToNumber(parts[2]) ELSE NaN
    IN  IF h = NaN \/ m = NaN THEN InvalidDate
        ELSE LET reminder == StartOfDay(at) + h * 60 + m - LeadMinutes
             IN  IF reminder < at THEN reminder + MinutesPerDay ELSE reminder

\* nextReminderDate(startHHMM), called at instant `at`
NextReminderDate(startHHMM, at) ==
    LET parts == Split(startHHMM, ":")
        h == ToNumber(parts[1])
        m == IF Len(parts) >= 2 THEN ToNumber(parts[2]) ELSE NaN
    IN  IF h = NaN \/ m = NaN THEN InvalidDate
        ELSE LET reminder == StartOfDay(at) + h * 60 + m - LeadMinutes
             IN  IF reminder <= at THEN reminder + MinutesPerDay ELSE reminder


----------------------------------------------------------------------------
(* Chat state registry and timers *)

Slots == {"morning", "evening"}

Chats == {1, 2}

\* `new Map()`
EmptyMap == [k \in {} |-> 0]

\* the registry and the timer list, threaded through the helpers below;
\* cleared and armed log the handles given to clearTimeout and returned by
\* setTimeout, ok is FALSE when the model has run out of timer handles
Heap(cs, tm) == [chatStates |-> cs, timers |-> tm, cleared |-> {}, armed |-> {}, ok |-> TRUE]

\* getChatState over one state shared by all chats, as in the first variant of
\* the bot: the entry of a new chat is the entry of a chat met before
GetChatStateShared(cs, chatId) ==
    IF chatId \in DOMAIN cs THEN cs
    ELSE [c \in DOMAIN cs \cup {chatId} |->
            IF c # chatId THEN cs[c]
            ELSE IF DOMAIN cs # {} THEN cs[CHOOSE d \in DOMAIN cs : TRUE]
            ELSE [windows |-> [morning |-> NULL, evening |-> NULL], reminders |-> EmptyMap]]

\* getChatState(chatId): the registry, with the chat's entry created when absent
GetChatState(cs, chatId) ==
    IF chatId \in DOMAIN cs THEN cs
    ELSE [c \in DOMAIN cs \cup {chatId} |->
            IF c = chatId
            THEN [windows |-> [morning |-> NULL, evening |-> NULL], reminders |-> EmptyMap]
            ELSE cs[c]]

\* Map.prototype.set and Map.prototype.delete
MapSet(map, key, value) == [k \in DOMAIN map \cup {key} |-> IF k = key THEN value ELSE map[k]]

\* Map.prototype.delete that deletes nothing
MapDeleteKeeps(map, key) == map

MapDelete(map, key) == [k \in DOMAIN map \ {key} |-> map[k]]

\* clearTimeout(id): a handle of a timeout that fired or was cleared is ignored
ClearTimeout(tm, id) == {t \in tm : t.id # id}

\* the handles some reminders map holds, and those of armed timeouts
HandlesInUse(h) ==
    {t.id : t \in h.timers}
    \cup UNION {{h.chatStates[c].reminders[k] : k \in DOMAIN h.chatStates[c].reminders} :
                c \in DOMAIN h.chatStates}

\* a handle for a new timeout: one that nothing refers to; 0 when none is left
NewHandle(h) ==
    LET free == (1..MaxTimers) \ (HandlesInUse(h) \cup h.armed \cup h.cleared)
    IN  IF free = {} THEN 0 ELSE CHOOSE i \in free : \A j \in free : i <= j

\* clearChatReminders that also forgets the chat's windows
ClearChatRemindersAndWindows(h, chatId) ==
    LET cs1 == GetChatState(h.chatStates, chatId)
        rem == cs1[chatId].reminders
        ids == {rem[k] : k \in DOMAIN rem}
    IN  [h EXCEPT !.chatStates =
                     [cs1 EXCEPT ![chatId] =
                        [windows |-> [morning |-> NULL, evening |-> NULL],
                         reminders |-> EmptyMap]],
                  !.timers = {t \in h.timers : t.id \notin ids},
                  !.cleared = @ \cup ids]

\* clearChatReminders that clears the morning handle alone
ClearChatRemindersMorningOnly(h, chatId) ==
    LET cs1 == GetChatState(h.chatStates, chatId)
        rem == cs1[chatId].reminders
        ids == {rem[k] : k \in DOMAIN rem \cap {"morning"}}
    IN  [h EXCEPT !.chatStates = [cs1 EXCEPT ![chatId].reminders = MapDelete(rem, "morning")],
                  !.timers = {t \in h.timers : t.id \notin ids},
                  !.cleared = @ \cup ids]

\* clearChatReminders(chatId)
ClearChatReminders(h, chatId) ==
    LET cs1 == GetChatState(h.chatStates, chatId)
        rem == cs1[chatId].reminders
        ids == {rem[k] : k \in DOMAIN rem}
    IN  [h EXCEPT !.chatStates = [cs1 EXCEPT ![chatId].reminders = EmptyMap],
                  !.timers = {t \in h.timers : t.id \notin ids},
                  !.cleared = @ \cup ids]

\* the instant a timeout set at `at` with delay timeoutMs fires: setTimeout
\* takes a delay below 1 ms (or NaN) as 1 ms
DueTime(at, timeoutMs) == IF timeoutMs > 0 THEN at + timeoutMs ELSE at

\* scheduleReminder without lines 124-125: the slot's previous timeout is
\* left armed when the new one is recorded
ScheduleReminderKeepsExisting(h, chatId, windowKey, timeWindow, at) ==
    LET cs1 == GetChatState(h.chatStates, chatId)
        start == Split(timeWindow, "-")[1]
        runAt == NextReminderDate(start, at)
        timeoutMs == IF runAt = InvalidDate THEN 0 ELSE runAt - at
        rem == cs1[chatId].reminders
        h1 == [h EXCEPT !.chatStates = cs1]
        id == NewHandle(h1)
        timeout == [id |-> id, chatId |-> chatId, windowKey |-> windowKey,
                    timeWindow |-> timeWindow, runAt |-> runAt,
                    due |-> DueTime(at, timeoutMs)]
    IN  [h1 EXCEPT !.timers = @ \cup {timeout},
                   !.chatStates[chatId].reminders = MapSet(rem, windowKey, id),
                   !.armed = @ \cup {id},
                   !.ok = @ /\ id # 0]

\* scheduleReminder(chatId, windowKey, timeWindow), called at instant `at`:
\* all of it but the body of the timer callback
ScheduleReminder(h, chatId, windowKey, timeWindow, at) ==
    LET cs1 == GetChatState(h.chatStates, chatId)
        start == Split(timeWindow, "-")[1]
        runAt == NextReminderDate(start, at)
        timeoutMs == IF runAt = InvalidDate THEN 0 ELSE runAt - at
        rem == cs1[chatId].reminders
        tm1 == IF windowKey \in DOMAIN rem THEN ClearTimeout(h.timers, rem[windowKey])
               ELSE h.timers
        clr == IF windowKey \in DOMAIN rem THEN {rem[windowKey]} ELSE {}
        h1 == [h EXCEPT !.chatStates = cs1, !.timers = tm1, !.cleared = @ \cup clr]
        id == NewHandle(h1)
        timeout == [id |-> id, chatId |-> chatId, windowKey |-> windowKey,
                    timeWindow |-> timeWindow, runAt |-> runAt,
                    due |-> DueTime(at, timeoutMs)]
    IN  [h1 EXCEPT !.timers = @ \cup {timeout},
                   !.chatStates[chatId].reminders = MapSet(rem, windowKey, id),
                   !.armed = @ \cup {id},
                   !.ok = @ /\ id # 0]

----------------------------------------------------------------------------
(* Inputs *)

W1000 == <<"1", "0", ":", "0", "0", "-", "1", "1", ":", "0", "0">>
W1800 == <<"1", "8", ":", "0", "0", "-", "1", "9", ":", "0", "0">>
W0005 == <<"0", ":", "0", "5", "-", "1", ":", "0", "0">>
W2500 == <<"2", "5", ":", "0", "0", "-", "1", "0", ":", "0", "0">>

\* the argument lists of the /set_windows commands the model sends: a bot in
\* chat 1 alone is sent the first set, a bot in chat 2 alone the second (an
\* evening window that starts within ten minutes of midnight), a bot in both
\* chats the third
ArgLists ==
    IF members = {1}
    THEN { <<W1000>>, <<W2500>>, <<W1000, W1800, W1000>>,
           <<>>, <<W0005>>, <<W1000, W1800>>, <<W1000, W2500>> }
    ELSE IF members = {2}
    THEN { <<W1000>>, <<W1000, W0005>> }
    ELSE { <<W1000>>, <<W2500>>, <<W1000, W1800, W1000>> }

\* the minutes of a day at which the model looks at the system
DayMinutes == {9 * 60 + 50, 17 * 60 + 50, 23 * 60 + 55, 23 * 60 + 56}

TimePoints == {d * MinutesPerDay + m : d \in 0..(MaxDays - 1), m \in DayMinutes}

InitTime == 9 * 60

----------------------------------------------------------------------------
(* What the reminders of a window are, by the contract of section 4.2 *)

\* the minute of the day at which the reminder of window w falls: LeadMinutes
\* before its start, on the previous day's clock for a start before 00:10
ReminderMinute(w) ==
    LET parts == Split(Split(w, "-")[1], ":")
    IN  (ToNumber(parts[1]) * 60 + ToNumber(parts[2]) - LeadMinutes) % MinutesPerDay

\* the first instant strictly after t at which the reminder of w falls; 0 for no window
FirstOccurrenceAfter(w, t) ==
    IF w = NULL THEN 0
    ELSE LET today == StartOfDay(t) + ReminderMinute(w)
         IN  IF today > t THEN today ELSE today + MinutesPerDay

\* the history of a slot after a reminder: the new reminder and the one before it
Remember(history, reminder) ==
    IF history = <<>> THEN <<reminder>> ELSE <<reminder, history[1]>>

----------------------------------------------------------------------------
(* Initial state: the module has been loaded and the bot launched *)

Op(op, chatId, windowKey, args, ok, reply) ==
    [op |-> op, chatId |-> chatId, windowKey |-> windowKey, args |-> args, ok |-> ok,
     reply |-> reply]

Init ==
    /\ members \in {{1}, {2}, {1, 2}}
    /\ now = InitTime
    /\ chatStates = EmptyMap
    /\ timers = {}
    /\ inflight = EmptyBag
    /\ sent = [c \in Chats |-> [k \in Slots |-> <<>>]]
    /\ owed = [c \in Chats |-> [k \in Slots |-> 0]]
    /\ signals = {}
    /\ lastOp = Op("launch", 0, "", <<>>, TRUE, "")

----------------------------------------------------------------------------
(* Handlers *)

\* the bot handles commands until bot.stop() is called
Running == signals = {}

\* the accepted /set_windows without its call of clearChatReminders
SetWindowsAcceptedKeepsTimers(h, chatId, args, at) ==
    LET cs1 == GetChatState(h.chatStates, chatId)
        morning == args[1]
        evening == IF Len(args) >= 2 THEN args[2] ELSE NULL
        h1 == [h EXCEPT !.chatStates =
                 [cs1 EXCEPT ![chatId].windows = [morning |-> morning, evening |-> evening]]]
        h3 == ScheduleReminder(h1, chatId, "morning", morning, at)
    IN  IF evening # NULL /\ Len(evening) > 0
        THEN ScheduleReminder(h3, chatId, "evening", evening, at)
        ELSE h3

\* the synchronous part of a /set_windows whose arguments passed the checks
SetWindowsAccepted(h, chatId, args, at) ==
    LET cs1 == GetChatState(h.chatStates, chatId)
        morning == args[1]
        evening == IF Len(args) >= 2 THEN args[2] ELSE NULL
        h1 == [h EXCEPT !.chatStates =
                 [cs1 EXCEPT ![chatId].windows = [morning |-> morning, evening |-> evening]]]
        h2 == ClearChatReminders(h1, chatId)
        h3 == ScheduleReminder(h2, chatId, "morning", morning, at)
    IN  IF evening # NULL /\ Len(evening) > 0
        THEN ScheduleReminder(h3, chatId, "evening", evening, at)
        ELSE h3

\* the argument count check with the upper limit off by one
BadArgCountUpToThree(args) == Len(args) = 0 \/ Len(args) > 3

\* the argument count check of /set_windows
BadArgCount(args) == Len(args) = 0 \/ Len(args) > 2

\* bot.command('set_windows', ...), args being text.split(' ').slice(1)
SetWindows(chatId, args) ==
    /\ Running
    /\ LET h0 == Heap(chatStates, timers)
           reply == IF BadArgCount(args) THEN "usage"
                    ELSE IF ~(\A i \in 1..Len(args) : IsValidTimeWindow(args[i])) THEN "format"
                    ELSE "set"
           h == IF reply = "set" THEN SetWindowsAccepted(h0, chatId, args, now) ELSE h0
       IN  /\ h.ok
           /\ chatStates' = h.chatStates
           /\ timers' = h.timers
           /\ lastOp' = Op("set_windows", chatId, "", args, TRUE, reply)
           /\ owed' = IF reply = "set"
                      THEN [owed EXCEPT ![chatId] =
                              [k \in Slots |-> FirstOccurrenceAfter(
                                                  h.chatStates[chatId].windows[k], now)]]
                      ELSE owed
    /\ UNCHANGED <<members, now, inflight, sent, signals>>

\* bot.command('show_windows', ...)
ShowWindows(chatId) ==
    /\ Running
    /\ LET cs1 == GetChatState(chatStates, chatId)
           w == cs1[chatId].windows
           reply == IF w.morning = NULL /\ w.evening = NULL THEN "none" ELSE "list"
       IN  /\ chatStates' = cs1
           /\ lastOp' = Op("show_windows", chatId, "", <<>>, TRUE, reply)
    /\ UNCHANGED <<members, owed, now, timers, inflight, sent, signals>>

\* the timer callback with a stale check that only returns: the stored
\* window is not armed
TimerFiresDropsStale(t) ==
    /\ t \in timers
    /\ t.due <= now
    /\ LET c == t.chatId
           k == t.windowKey
           rem == chatStates[c].reminders
           cs1 == IF k \in DOMAIN rem
                  THEN [chatStates EXCEPT ![c].reminders = MapDelete(rem, k)]
                  ELSE chatStates
           fresh == GetChatState(cs1, c)[c].windows[k]
       IN  IF fresh # t.timeWindow
           THEN /\ chatStates' = cs1
                /\ timers' = timers \ {t}
                /\ lastOp' = Op("fire_stale", c, k, <<>>, TRUE, "")
                /\ UNCHANGED <<inflight, sent>>
           ELSE /\ BagCardinality(inflight) < MaxInflight
                /\ chatStates' = cs1
                /\ timers' = timers \ {t}
                /\ sent' = [sent EXCEPT ![c][k] =
                              Remember(@, [timeWindow |-> t.timeWindow, at |-> now])]
                /\ inflight' = inflight (+) SetToBag({[chatId |-> c, windowKey |-> k,
                                                       timeWindow |-> t.timeWindow]})
                /\ lastOp' = Op("fire_send", c, k, <<>>, TRUE, "")
    /\ UNCHANGED <<members, owed, now, signals>>

\* the timer callback of scheduleReminder, up to its return or its await
TimerFires(t) ==
    /\ t \in timers
    /\ t.due <= now
    /\ LET c == t.chatId
           k == t.windowKey
           rem == chatStates[c].reminders
           cs1 == IF k \in DOMAIN rem
                  THEN [chatStates EXCEPT ![c].reminders = MapDelete(rem, k)]
                  ELSE chatStates
           h0 == Heap(cs1, timers \ {t})
           fresh == GetChatState(cs1, c)[c].windows[k]
       IN  IF fresh # t.timeWindow
           THEN LET h == IF fresh # NULL /\ Len(fresh) > 0
                         THEN ScheduleReminder(h0, c, k, fresh, now)
                         ELSE h0
                IN  /\ h.ok
                    /\ chatStates' = h.chatStates
                    /\ timers' = h.timers
                    /\ lastOp' = Op("fire_stale", c, k, <<>>, TRUE, "")
                    /\ UNCHANGED <<inflight, sent>>
           ELSE /\ BagCardinality(inflight) < MaxInflight
                /\ chatStates' = cs1
                /\ timers' = timers \ {t}
                /\ sent' = [sent EXCEPT ![c][k] =
                              Remember(@, [timeWindow |-> t.timeWindow, at |-> now])]
                /\ inflight' = inflight (+) SetToBag({[chatId |-> c, windowKey |-> k,
                                                       timeWindow |-> t.timeWindow]})
                /\ lastOp' = Op("fire_send", c, k, <<>>, TRUE, "")
    /\ UNCHANGED <<members, owed, now, signals>>

\* sendToChat without its try/catch: a rejected sendMessage ends the callback
\* before it arms the slot again
SendCompletesUncaught(cb, ok) ==
    /\ BagIn(cb, inflight)
    /\ \E h \in {IF ok THEN ScheduleReminder(Heap(chatStates, timers), cb.chatId,
                                             cb.windowKey, cb.timeWindow, now)
                 ELSE Heap(chatStates, timers)} :
           /\ h.ok
           /\ chatStates' = h.chatStates
           /\ timers' = h.timers
           /\ lastOp' = Op("send_done", cb.chatId, cb.windowKey, <<>>, ok, "")
    /\ inflight' = inflight (-) SetToBag({cb})
    /\ UNCHANGED <<members, owed, now, sent, signals>>

\* sendToChat settles (ok: delivered; ~ok: sendMessage rejected, caught and
\* logged), and the timer callback runs to its end
SendCompletes(cb, ok) ==
    /\ BagIn(cb, inflight)
    /\ \E h \in {ScheduleReminder(Heap(chatStates, timers), cb.chatId, cb.windowKey,
                                   cb.timeWindow, now)} :
           /\ h.ok
           /\ chatStates' = h.chatStates
           /\ timers' = h.timers
           /\ lastOp' = Op("send_done", cb.chatId, cb.windowKey, <<>>, ok, "")
    /\ inflight' = inflight (-) SetToBag({cb})
    /\ UNCHANGED <<members, owed, now, sent, signals>>

\* clearAllRemindersAllChats()
RECURSIVE ClearAll(_, _)
ClearAll(h, chatIds) ==
    IF chatIds = {} THEN h
    ELSE LET chatId == CHOOSE c \in chatIds : \A d \in chatIds : c <= d
         IN  ClearAll(ClearChatReminders(h, chatId), chatIds \ {chatId})

\* clearAllRemindersAllChats that stops after the first chat that has handles
ClearAllOneChatPerCall(h) ==
    LET busy == {c \in DOMAIN h.chatStates : DOMAIN h.chatStates[c].reminders # {}}
    IN  IF busy = {} THEN h
        ELSE ClearChatReminders(h, CHOOSE c \in busy : \A d \in busy : c <= d)

ClearAllRemindersAllChats(h) == ClearAll(h, DOMAIN h.chatStates)

\* process.once('SIGINT' | 'SIGTERM', ...)
Signal(sig) ==
    /\ sig \notin signals
    /\ LET h == ClearAllRemindersAllChats(Heap(chatStates, timers))
       IN  /\ chatStates' = h.chatStates
           /\ timers' = h.timers
           /\ lastOp' = Op(sig, 0, "", <<>>, TRUE, "")
    /\ signals' = signals \cup {sig}
    /\ UNCHANGED <<members, owed, now, inflight, sent>>

\* time passes; a timeout fires when it is due, before the clock moves on, and
\* a delivery settles before the clock reaches the next instant of TimePoints
Advance(t) ==
    /\ t > now
    /\ \A x \in timers : x.due >= t
    /\ inflight = EmptyBag
    /\ now' = t
    /\ lastOp' = Op("advance", 0, "", <<>>, TRUE, "")
    /\ UNCHANGED <<members, owed, chatStates, timers, inflight, sent, signals>>

Next ==
    \/ \E chatId \in members, args \in ArgLists : SetWindows(chatId, args)
    \/ \E chatId \in members : ShowWindows(chatId)
    \/ \E t \in timers : TimerFires(t)
    \/ \E cb \in BagToSet(inflight), ok \in BOOLEAN : SendCompletes(cb, ok)
    \/ \E sig \in {"SIGINT", "SIGTERM"} : Signal(sig)
    \/ \E t \in TimePoints : Advance(t)

Spec == Init /\ [][Next]_vars

\* the delivery of a reminder of slot k of chat c settles: its callback is no
\* longer suspended at `await sendToChat`
Settles(c, k) ==
    \E cb \in BagToSet(inflight) :
        /\ cb.chatId = c /\ cb.windowKey = k
        /\ inflight' = inflight (-) SetToBag({cb})

\* every delivery attempt settles in the end, delivered or rejected
LiveSpec ==
    /\ Spec
    /\ \A c \in Chats, k \in Slots : WF_inflight(Settles(c, k))

----------------------------------------------------------------------------
(* The pure functions, called on their own *)

\* the hour and minute texts the model writes windows with
HourTexts ==
    { <<"0">>, <<"9">>, <<"0", "0">>, <<"0", "9">>, <<"1", "0">>, <<"1", "9">>, <<"2">>,
      <<"2", "3">>, <<"2", "4">>, <<"2", "5">> }

MinuteTexts == { <<"0", "0">>, <<"0", "5">>, <<"0", "9">>, <<"5", "9">>, <<"6", "0">>, <<"5">> }

TimeTexts == {h \o <<":">> \o m : h \in HourTexts, m \in MinuteTexts}

\* the end times of the windows
EndTexts == { <<"1", ":", "0", "0">>, <<"0", "0", ":", "0", "0">>, <<"2", "3", ":", "5", "9">>,
              <<"2", "4", ":", "0", "0">>, <<"9", ":", "6", "0">>, <<"7", ":", "5">> }

\* strings that are not two times joined by a dash
OtherTexts ==
    { <<>>, <<"a", "b", "c">>, <<"1", "0", ":", "0", "0">>,
      <<"1", "0", ":", "0", "0", "-">>, <<"-", "1", "0", ":", "0", "0">>,
      <<"1", "0", ":", "0", "0", "-", "1", "1", ":", "0", "0", "x">>,
      <<"x", "1", "0", ":", "0", "0", "-", "1", "1", ":", "0", "0">>,
      <<"1", "0", "0", "0", "-", "1", "1", "0", "0">>,
      <<"1", "0", ":", "0", "0", ":", "1", "1", ":", "0", "0">>,
      <<"1", "0", ":", "0", "0", "-", "1", "1", ":", "0", "0", "-", "1", "2", ":", "0", "0">>,
      <<"1", "0", "0", ":", "0", "0", "-", "1", "1", ":", "0", "0">>,
      <<"1", "0", ":", "0", "0", "0", "-", "1", "1", ":", "0", "0">>,
      <<"a", "b", ":", "c", "d", "-", "e", "f", ":", "g", "h">> }

\* the strings the functions are called with
CallTexts ==
    {a \o <<"-">> \o b : a \in TimeTexts, b \in EndTexts}
    \cup {b \o <<"-">> \o a : a \in TimeTexts, b \in EndTexts}
    \cup OtherTexts

\* the minutes of a day at which the functions are called
CallMinutes == {0, 5, 9 * 60 + 30, 9 * 60 + 50, 9 * 60 + 55, 23 * 60 + 49, 23 * 60 + 50,
                23 * 60 + 55, 23 * 60 + 56, 23 * 60 + 59}

CallTimes == {d * MinutesPerDay + m : d \in 0..(MaxDays - 1), m \in CallMinutes}

\* a call of a function and what it returned
Call(op, args, result) == [op |-> op, args |-> args, result |-> result]

CallInit ==
    /\ members = {1}
    /\ now \in CallTimes
    /\ chatStates = EmptyMap
    /\ timers = {}
    /\ inflight = EmptyBag
    /\ sent = [c \in Chats |-> [k \in Slots |-> <<>>]]
    /\ owed = [c \in Chats |-> [k \in Slots |-> 0]]
    /\ signals = {}
    /\ \E timeStr \in CallTexts : lastOp = Call("input", <<timeStr>>, NULL)

\* isValidTimeWindow(timeStr)
Validate ==
    /\ lastOp.op = "input"
    /\ lastOp' = Call("isValidTimeWindow", lastOp.args, IsValidTimeWindow(lastOp.args[1]))
    /\ UNCHANGED <<members, now, chatStates, timers, inflight, sent, owed, signals>>

\* nextReminderDate(start) at the instant now, start being the start of a
\* window that passed isValidTimeWindow, as in scheduleReminder
NextFire ==
    /\ lastOp.op = "input"
    /\ IsValidTimeWindow(lastOp.args[1])
    /\ lastOp' = Call("nextReminderDate", lastOp.args,
                      NextReminderDate(Split(lastOp.args[1], "-")[1], now))
    /\ UNCHANGED <<members, now, chatStates, timers, inflight, sent, owed, signals>>

CallNext == Validate \/ NextFire

CallSpec == CallInit /\ [][CallNext]_vars

----------------------------------------------------------------------------
(* Properties *)

\* the timeouts armed for a slot of a chat
PendingTimers(c, k) == {t \in timers : t.chatId = c /\ t.windowKey = k}

\* the window stored for a slot of a chat, NULL for a chat without an entry
StoredWindow(c, k) == IF c \in DOMAIN chatStates THEN chatStates[c].windows[k] ELSE NULL

\* C1: in every reachable state at most one timer is pending for each
\* (chatId, slot) pair
C1_OneTimerPerSlot ==
    \A c \in Chats, k \in Slots : Cardinality(PendingTimers(c, k)) <= 1

\* a callback that was waiting for its delivery has armed its slot again while
\* both slots of the chat have a timer
C1_Witness ==
    /\ lastOp.op = "send_done"
    /\ \A k \in Slots : Cardinality(PendingTimers(lastOp.chatId, k)) = 1

\* C2: reminders of a stored window that is not changed are dispatched once
\* per occurrence: the last two reminders of a slot, when they are of the same
\* window and no /set_windows was accepted since the earlier one, are at least
\* a day apart
C2_OncePerOccurrence ==
    \A c \in Chats, k \in Slots :
        (Len(sent[c][k]) >= 2 /\ sent[c][k][1].timeWindow = sent[c][k][2].timeWindow
             /\ owed[c][k] <= sent[c][k][2].at)
        => sent[c][k][1].at >= sent[c][k][2].at + MinutesPerDay

\* C3: once a termination signal has been handled, no timer is pending
C3_NothingPendingAfterShutdown == signals # {} => timers = {}

\* C4: the reminder of the stored window has been dispatched once the first
\* instant at which it falls after the change has passed
C4_NoOccurrenceSkipped ==
    \A c \in Chats, k \in Slots :
        (Running /\ owed[c][k] # 0 /\ now > owed[c][k])
        => /\ Len(sent[c][k]) >= 1
           /\ sent[c][k][1].timeWindow = StoredWindow(c, k)
           /\ sent[c][k][1].at >= owed[c][k]

\* C5: when a delivery has settled, delivered or not, the slot is armed with the
\* same window for the first instant after now at which its reminder falls
C5_RearmedForNextDay ==
    [][lastOp'.op = "send_done"
       => \E t \in timers' \ timers :
            /\ t.chatId = lastOp'.chatId /\ t.windowKey = lastOp'.windowKey
            /\ t.due = FirstOccurrenceAfter(t.timeWindow, now)]_vars

\* the argument lists /set_windows is to reject: no or more than two arguments,
\* or an argument that is not a window
WellFormedWindows == {W1000, W1800, W0005}

Rejected(args) ==
    Len(args) \notin {1, 2} \/ \E i \in 1..Len(args) : args[i] \notin WellFormedWindows

\* C6: a /set_windows with a bad argument count or a malformed argument leaves
\* the stored windows and the pending timers of every chat as they were
C6_RejectedChangesNothing ==
    [][(lastOp'.op = "set_windows" /\ Rejected(lastOp'.args))
       => UNCHANGED <<chatStates, timers>>]_vars

\* a malformed /set_windows has been answered in a chat that has a pending timer
C6_Witness ==
    /\ lastOp.op = "set_windows" /\ lastOp.reply = "format"
    /\ PendingTimers(lastOp.chatId, "morning") # {}

\* C7: an accepted /set_windows stores exactly its windows, leaves one pending
\* timer armed with the new window in each slot that has one and none in the
\* evening slot without one, and cancels every timer the chat had before
C7_SetWindowsPostcondition ==
    [][(lastOp'.op = "set_windows" /\ ~Rejected(lastOp'.args))
         => LET args == lastOp'.args
                c == lastOp'.chatId
                evening == IF Len(args) = 2 THEN args[2] ELSE NULL
                pending == [k \in Slots |->
                                  {t \in timers' : t.chatId = c /\ t.windowKey = k}]
            IN  /\ chatStates'[c].windows = [morning |-> args[1], evening |-> evening]
                /\ Cardinality(pending["morning"]) = 1
                /\ \A t \in pending["morning"] : t.timeWindow = args[1]
                /\ Cardinality(pending["evening"]) = (IF evening = NULL THEN 0 ELSE 1)
                /\ \A t \in pending["evening"] : t.timeWindow = evening
                /\ \A t \in timers : t.chatId = c => \A u \in timers' : u.id # t.id]_vars

\* a chat that had two windows has been sent a /set_windows with one window
C7_Witness ==
    /\ lastOp.op = "set_windows" /\ lastOp.reply = "set"
    /\ StoredWindow(lastOp.chatId, "evening") = NULL
    /\ Len(sent[lastOp.chatId]["evening"]) > 0
    /\ PendingTimers(lastOp.chatId, "evening") = {}

\* C9: clearing a chat's reminders cancels its pending timers, empties its
\* handle map and leaves its stored windows as they were.  The termination
\* signals clear every chat of the registry; an accepted /set_windows clears
\* its chat after it has stored the windows and before it arms the new timers
C9_ClearKeepsWindows ==
    [][/\ lastOp'.op \in {"SIGINT", "SIGTERM"}
          => \A c \in DOMAIN chatStates :
                /\ c \in DOMAIN chatStates'
                /\ \A t \in timers' : t.chatId # c
                /\ DOMAIN chatStates'[c].reminders = {}
                /\ chatStates'[c].windows = chatStates[c].windows
       /\ (lastOp'.op = "set_windows" /\ lastOp'.reply = "set")
          => /\ chatStates'[lastOp'.chatId].windows.morning = lastOp'.args[1]
             /\ \A t \in timers : t.chatId = lastOp'.chatId => t \notin timers']_vars

\* a signal has cleared a chat with two stored windows whose timers never fired
C9_Witness ==
    /\ lastOp.op \in {"SIGINT", "SIGTERM"}
    /\ \E c \in Chats :
          /\ \A k \in Slots : StoredWindow(c, k) # NULL /\ sent[c][k] = <<>>
          /\ timers = {}

\* what the program holds for chat b
ChatView(b) ==
    [entry |-> {chatStates[c] : c \in DOMAIN chatStates \cap {b}},
     pending |-> {t \in timers : t.chatId = b}]

\* C10: a handler that runs for chat A leaves the stored windows, the handle
\* map and the pending timers of every other chat as they were
C10_ChatsIsolated ==
    [][\A b \in Chats :
         (lastOp'.chatId # 0 /\ lastOp'.chatId # b) => ChatView(b)' = ChatView(b)]_vars

\* a command of one chat has been handled while another chat has a pending timer
C10_Witness ==
    /\ lastOp.op = "set_windows" /\ lastOp.reply = "set"
    /\ \E b \in Chats : b # lastOp.chatId /\ PendingTimers(b, "morning") # {}

\* C8: every fire of a timer of a slot that has a stored window is followed by
\* the slot being armed again
C8_FireLeadsToArmed ==
    \A c \in Chats, k \in Slots :
        (lastOp.op \in {"fire_send", "fire_stale"} /\ lastOp.chatId = c
             /\ lastOp.windowKey = k /\ StoredWindow(c, k) # NULL)
        ~> (PendingTimers(c, k) # {})

\* a reminder has been sent more than once and the slot is armed again
C8_Witness ==
    \E c \in Chats, k \in Slots :
        /\ Len(sent[c][k]) = 2 /\ lastOp.op = "send_done" /\ ~lastOp.ok
        /\ lastOp.chatId = c /\ lastOp.windowKey = k
        /\ PendingTimers(c, k) # {}

----------------------------------------------------------------------------
(* The window validator *)

\* s is a numeral of one of the lengths lens, with a value of at most max
IsNumeralUpTo(s, lens, max) ==
    /\ Len(s) \in lens
    /\ \A i \in 1..Len(s) : s[i] \in {"0", "1", "2", "3", "4", "5", "6", "7", "8", "9"}
    /\ DigitsValue(s, Len(s)) <= max

\* s is H:MM, the hour in 0..23 with one or two digits, the minute in 00..59
\* with two digits
IsTimeText(s) ==
    \E i \in 1..Len(s) :
        /\ s[i] = ":"
        /\ IsNumeralUpTo(SubSeq(s, 1, i - 1), {1, 2}, 23)
        /\ IsNumeralUpTo(SubSeq(s, i + 1, Len(s)), {2}, 59)

\* s is two such times joined by a dash
IsWindowText(s) ==
    \E i \in 1..Len(s) :
        /\ s[i] = "-"
        /\ IsTimeText(SubSeq(s, 1, i - 1))
        /\ IsTimeText(SubSeq(s, i + 1, Len(s)))

\* C11: the validator accepts a string exactly when it is H:MM-H:MM with the
\* hours in 0..23, of one or two digits, and the minutes in 00..59, of two
\* digits; the order of the two times does not matter
C11_ValidatorAcceptsExactlyWindows ==
    lastOp.op = "isValidTimeWindow" => (lastOp.result <=> IsWindowText(lastOp.args[1]))

\* the validator has accepted a window that ends before it starts
C11_Witness ==
    /\ lastOp.op = "isValidTimeWindow" /\ lastOp.result
    /\ lastOp.args[1] = <<"2", "3", ":", "5", "9", "-", "1", ":", "0", "0">>

----------------------------------------------------------------------------
(* Stale fires *)

\* C12: a fire of a timer whose window is not the one stored for its slot
\* dispatches nothing; when a window is stored, the step arms one timer for it,
\* and when none is stored, the step leaves the slot without a pending timer
C12_StaleFire ==
    [][lastOp'.op \in {"fire_send", "fire_stale"}
       => \A t \in timers \ timers' :
            (/\ t.chatId = lastOp'.chatId /\ t.windowKey = lastOp'.windowKey
             /\ t.timeWindow # StoredWindow(t.chatId, t.windowKey))
            => LET stored == StoredWindow(t.chatId, t.windowKey)
                   pending == {u \in timers' : u.chatId = t.chatId /\ u.windowKey = t.windowKey}
               IN  /\ sent' = sent
                   /\ inflight' = inflight
                   /\ IF stored = NULL THEN pending = {}
                      ELSE /\ Cardinality(pending) = 1
                           /\ \A u \in pending : u \notin timers /\ u.timeWindow = stored]_vars

\* a timer armed with a window that was replaced since has fired, and the slot
\* is armed with the stored window
C12_Witness ==
    /\ lastOp.op = "fire_stale"
    /\ StoredWindow(lastOp.chatId, lastOp.windowKey) # NULL
    /\ \E u \in PendingTimers(lastOp.chatId, lastOp.windowKey) :
          u.timeWindow = StoredWindow(lastOp.chatId, lastOp.windowKey)

\* a timer of a slot that has no window any more has fired
C12_NullReached ==
    /\ lastOp.op = "fire_stale"
    /\ StoredWindow(lastOp.chatId, lastOp.windowKey) = NULL

----------------------------------------------------------------------------
(* The fire time *)

\* the position of the first occurrence of character c in s
FirstIndex(s, c) == CHOOSE i \in 1..Len(s) : s[i] = c /\ \A j \in 1..(i - 1) : s[j] # c

\* the minute of the day at which window w starts
StartMinuteOfDay(w) ==
    LET colon == FirstIndex(w, ":")
    IN  DigitsValue(SubSeq(w, 1, colon - 1), colon - 1) * 60
        + DigitsValue(SubSeq(w, colon + 1, colon + 2), 2)

\* today's date at the start of w less the lead, which may be yesterday's
Candidate(w, t) == (t - (t % MinutesPerDay)) + StartMinuteOfDay(w) - LeadMinutes

\* C13: the fire time is the candidate when the candidate is after now and the
\* candidate plus one day when it is not, now = candidate counting as passed
C13_NextFireTime ==
    lastOp.op = "nextReminderDate"
    => lastOp.result = (IF Candidate(lastOp.args[1], now) > now
                        THEN Candidate(lastOp.args[1], now)
                        ELSE Candidate(lastOp.args[1], now) + MinutesPerDay)

\* the fire time of a 10:00 window was asked for at 09:50 and is tomorrow's 09:50
C13_Witness ==
    /\ lastOp.op = "nextReminderDate"
    /\ SubSeq(lastOp.args[1], 1, 5) = <<"1", "0", ":", "0", "0">>
    /\ now % MinutesPerDay = 9 * 60 + 50
    /\ lastOp.result = now + MinutesPerDay

\* C16: the fire time is after now, by a day at most
C16_FireTimeAfterNow ==
    lastOp.op = "nextReminderDate"
    => (lastOp.result > now /\ lastOp.result - now <= MinutesPerDay)

----------------------------------------------------------------------------
(* Old and new timers *)

\* C14: a timer of a chat that was armed before an accepted /set_windows of
\* the chat does not fire after it: every timer pending for the chat after
\* the command was armed by the command, and a fire is the fire of a pending
\* timer that is due
C14_OldTimersNeverFire ==
    [][/\ (lastOp'.op = "set_windows" /\ lastOp'.reply = "set")
          => \A t \in timers' : t.chatId = lastOp'.chatId => t \notin timers
       /\ lastOp'.op \in {"fire_send", "fire_stale"}
          => \E t \in timers \ timers' :
                /\ t.chatId = lastOp'.chatId /\ t.windowKey = lastOp'.windowKey
                /\ t.due <= now]_vars

\* a /set_windows with one window was accepted in a chat with two pending
\* timers: the new timer has the third handle, the first two being those the
\* command cleared
C14_Witness ==
    /\ members = {1}
    /\ lastOp.op = "set_windows" /\ lastOp.reply = "set"
    /\ PendingTimers(1, "evening") = {}
    /\ \E t \in PendingTimers(1, "morning") : t.id = 3

----------------------------------------------------------------------------
(* Shutdown twice *)

\* C15: the shutdown handler leaves no pending timer and the stored windows
\* as they were, running it again on the state it leaves changes nothing, and
\* a second signal right after the first leaves the state of the first
C15_ShutdownIdempotent ==
    [][lastOp'.op \in {"SIGINT", "SIGTERM"}
       => LET again == ClearAllRemindersAllChats(Heap(chatStates', timers'))
          IN  /\ timers' = {}
              /\ DOMAIN chatStates' = DOMAIN chatStates
              /\ \A c \in DOMAIN chatStates : chatStates'[c].windows = chatStates[c].windows
              /\ again.chatStates = chatStates'
              /\ again.timers = timers'
              /\ lastOp.op \in {"SIGINT", "SIGTERM"}
                 => (chatStates' = chatStates /\ timers' = timers)]_vars

\* both signals have been handled in a bot that has windows stored in two chats
C15_Witness ==
    /\ signals = {"SIGINT", "SIGTERM"}
    /\ lastOp.op \in {"SIGINT", "SIGTERM"}
    /\ \A c \in Chats : StoredWindow(c, "morning") # NULL

----------------------------------------------------------------------------
(* Pending timers, stored windows and recorded handles *)

\* C17: a pending timer was armed with the window stored for its slot
C17_PendingTimerHasStoredWindow ==
    \A t \in timers : t.timeWindow = StoredWindow(t.chatId, t.windowKey)

\* the handle map of a chat, empty for a chat without an entry
Reminders(c) == IF c \in DOMAIN chatStates THEN chatStates[c].reminders ELSE EmptyMap

\* C18: the handle map of a chat holds exactly the chat's pending timers, each
\* under its slot
C18_MapHoldsPendingTimers ==
    \A c \in Chats :
        /\ \A t \in timers :
              t.chatId = c => (t.windowKey \in DOMAIN Reminders(c)
                               /\ Reminders(c)[t.windowKey] = t.id)
        /\ \A k \in DOMAIN Reminders(c) :
              \E t \in timers : t.id = Reminders(c)[k] /\ t.chatId = c /\ t.windowKey = k

\* the morning timer of a chat has fired and its delivery is under way, while
\* the evening timer of the chat is pending and recorded
C18_Witness ==
    \E c \in Chats :
        /\ lastOp.op = "fire_send" /\ lastOp.chatId = c /\ lastOp.windowKey = "morning"
        /\ DOMAIN Reminders(c) = {"evening"}
        /\ PendingTimers(c, "evening") # {}

====
